---- MODULE Spec2Model ----
(***************************************************************************)
(* Model of src/coordinator.rs: the CoordinatorStateReporter state machine *)
(* (parse_output_line, check_participant_dropped), the regular expressions *)
(* it tests, and the monitor_coordinator loop that feeds it the lines of   *)
(* the coordinator's stdout and archives them in coordinator.log.          *)
(*                                                                         *)
(* A line of output is a sequence of fragments.  A fragment is one phrase  *)
(* of the coordinator's log with the texts found at its capture places;    *)
(* the regular expressions are unanchored (they start with ".*"), so a     *)
(* line matches one when some fragment of it has the phrase and texts of   *)
(* the character classes the expression asks for.                          *)
(***************************************************************************)
EXTENDS Integers, Sequences, FiniteSets, TLC

VARIABLES
    current_state,  \* CoordinatorStateReporter.current_state
    ceremony_tx,    \* the messages broadcast on CoordinatorStateReporter.ceremony_tx
    log_file,       \* what monitor_coordinator has written to the log file
    pc,             \* position of monitor_coordinator: "read", "parse", "archive", "done", "failed"
    cur,            \* the line held by the loop body (the last line read)
    result,         \* "running", or what monitor_coordinator returned: "Ok" or the error
    lineNo,         \* number of line results taken from buf_pipe.lines()
    stream,         \* history: the line results taken by monitor_coordinator
    produced,       \* history: per parse_output_line call, the messages it broadcast
    pre_state,      \* history: current_state when the last parse_output_line call began
    contributors,   \* check_participants_in_round: the contributors argument
    verifiers,      \* check_participants_in_round: the verifiers argument
    state_file,     \* check_participants_in_round: round_{round}/state.json as read
    check_result    \* what check_participants_in_round returned, "pending" before

checkVars == <<contributors, verifiers, state_file, check_result>>

vars == <<current_state, ceremony_tx, log_file, pc, cur, result, lineNo, stream,
          produced, pre_state, contributors, verifiers, state_file, check_result>>

-----------------------------------------------------------------------------
(* Bounds *)

\* parse_output_line calls in the specification of the state machine alone
MaxLines == 5

\* line results read in the specification of the monitor loop
MaxStream == 4

\* parse_output_line calls in the specification of the rounds
MaxRoundLines == 8

\* line results read in the specification of the monitor loop with fairness
MaxLive == 3

\* length of the lists given to and read by check_participants_in_round
MaxIds == 2

-----------------------------------------------------------------------------
(* Texts at the capture places *)

Digit == {"0", "1", "2", "3", "4", "5", "6", "7", "8", "9"}

\* the class [0-9]+ : a non-empty run of digits
IsDigits(t) == Len(t) > 0 /\ \A i \in 1..Len(t) : t[i] \in Digit

DigitValue(d) ==
    CASE d = "0" -> 0 [] d = "1" -> 1 [] d = "2" -> 2 [] d = "3" -> 3 [] d = "4" -> 4
      [] d = "5" -> 5 [] d = "6" -> 6 [] d = "7" -> 7 [] d = "8" -> 8 [] d = "9" -> 9

\* u64::MAX = 18446744073709551615, digit by digit
U64MaxDigits ==
    <<"1","8","4","4","6","7","4","4","0","7","3","7","0","9","5","5","1","6","1","5">>

RECURSIVE StripZeros(_)
StripZeros(t) == IF Len(t) > 1 /\ t[1] = "0" THEN StripZeros(Tail(t)) ELSE t

RECURSIVE DigitsLeq(_, _)
\* a <= b for two digit runs of the same length
DigitsLeq(a, b) ==
    IF a = <<>> THEN TRUE
    ELSE IF DigitValue(a[1]) < DigitValue(b[1]) THEN TRUE
    ELSE IF DigitValue(a[1]) > DigitValue(b[1]) THEN FALSE
    ELSE DigitsLeq(Tail(a), Tail(b))

\* u64::from_str succeeds on a digit run whose value fits 64 bits
U64FromStrOk(t) ==
    /\ IsDigits(t)
    /\ LET s == StripZeros(t)
       IN  \/ Len(s) < Len(U64MaxDigits)
           \/ Len(s) = Len(U64MaxDigits) /\ DigitsLeq(s, U64MaxDigits)

RECURSIVE DigitsValue(_)
DigitsValue(t) ==
    IF t = <<>> THEN 0 ELSE 10 * DigitsValue(SubSeq(t, 1, Len(t) - 1)) + DigitValue(t[Len(t)])

\* the value u64::from_str gives
U64FromStr(t) == DigitsValue(StripZeros(t))

\* Address texts of the form aleo[a-z0-9]+
AddressReTexts == {"aleo1qq", "aleo1zz", "aleo1short"}

\* Address texts not of that form
OtherAddressTexts == {"bob"}

AddressTexts == AddressReTexts \cup OtherAddressTexts

\* AleoPublicKey::from_str accepts these
ValidAleoPublicKeys == {"aleo1qq", "aleo1zz"}

AleoPublicKeyFromStrOk(a) == a \in ValidAleoPublicKeys

-----------------------------------------------------------------------------
(* Fragments of a line *)

FragBooted == [kind |-> "Booted"]
FragAdvanced(r) == [kind |-> "Advanced", round |-> r]
FragStartAgg(r) == [kind |-> "StartAgg", round |-> r]
FragAggregated(r) == [kind |-> "Aggregated", round |-> r]
FragFinished(r) == [kind |-> "Finished", round |-> r]
FragDropping(a, t) == [kind |-> "Dropping", address |-> a, participant_type |-> t]
FragContribution(a, c) == [kind |-> "Contribution", address |-> a, chunk |-> c]
FragNoContributors == [kind |-> "NoContributors"]
FragOther == [kind |-> "Other"]

\* The expressions begin with a greedy ".*": of several places where the
\* rest matches, the captures are those of the last.
LastIndex(S) == CHOOSE i \in S : \A j \in S : j <= i

-----------------------------------------------------------------------------
(* The regular expressions *)

BootedOk(f) == f.kind = "Booted"
BOOTED_RE(line) == {i \in 1..Len(line) : BootedOk(line[i])} # {}

RoundStartedOk(f) == f.kind = "Advanced" /\ IsDigits(f.round)
ROUND_STARTED_RE(line) == {i \in 1..Len(line) : RoundStartedOk(line[i])} # {}

RoundStartedAggregationOk(f) == f.kind = "StartAgg" /\ IsDigits(f.round)
ROUND_STARTED_AGGREGATION_RE(line) == {i \in 1..Len(line) : RoundStartedAggregationOk(line[i])} # {}

RoundAggregatedOk(f) == f.kind = "Aggregated" /\ IsDigits(f.round)
ROUND_AGGREGATED_RE(line) == {i \in 1..Len(line) : RoundAggregatedOk(line[i])} # {}

RoundFinishedOk(f) == f.kind = "Finished" /\ IsDigits(f.round)
ROUND_FINISHED_RE(line) == {i \in 1..Len(line) : RoundFinishedOk(line[i])} # {}

\* variant: the role group is ([a-z]+)
DroppedParticipantAnyRoleOk(f) ==
    f.kind = "Dropping" /\ f.address \in AddressReTexts

DroppedParticipantOk(f) ==
    /\ f.kind = "Dropping"
    /\ f.address \in AddressReTexts
    /\ f.participant_type \in {"contributor", "verifier"}

\* the set of places where the expression matches
DROPPED_PARTICIPANT_RE(line) == {i \in 1..Len(line) : DroppedParticipantOk(line[i])}

SuccessfulContributionOk(f) ==
    f.kind = "Contribution" /\ f.address \in AddressReTexts /\ IsDigits(f.chunk)

SUCCESSFUL_CONTRIBUTION_RE(line) == {i \in 1..Len(line) : SuccessfulContributionOk(line[i])}

RoundRestartedOk(f) == f.kind = "NoContributors"
ROUND_RESTARTED_NO_CONTRIBUTORS_RE(line) == {i \in 1..Len(line) : RoundRestartedOk(line[i])} # {}

-----------------------------------------------------------------------------
(* CoordinatorState and CeremonyMessage *)

ProcessStarted == [tag |-> "ProcessStarted", round |-> 0]
State_RoundWaitingForParticipants(r) == [tag |-> "RoundWaitingForParticipants", round |-> r]
State_RoundRunning(r) == [tag |-> "RoundRunning", round |-> r]
State_RoundAggregating(r) == [tag |-> "RoundAggregating", round |-> r]
State_RoundWaitingForFinish(r) == [tag |-> "RoundWaitingForFinish", round |-> r]
State_RoundFinished(r) == [tag |-> "RoundFinished", round |-> r]

Msg_RoundWaitingForParticipants(r) == [type |-> "RoundWaitingForParticipants", round |-> r]
Msg_RoundStarted(r) == [type |-> "RoundStarted", round |-> r]
Msg_RoundStartedAggregation(r) == [type |-> "RoundStartedAggregation", round |-> r]
Msg_RoundAggregated(r) == [type |-> "RoundAggregated", round |-> r]
Msg_RoundFinished(r) == [type |-> "RoundFinished", round |-> r]
Msg_ParticipantDropped(role, a) == [type |-> "ParticipantDropped", role |-> role, address |-> a]
Msg_SuccessfulContribution(a, c) ==
    [type |-> "SuccessfulContribution", contributor |-> a, chunk |-> c]
Msg_Shutdown(reason) == [type |-> "Shutdown", reason |-> reason]

-----------------------------------------------------------------------------
(* One call of parse_output_line is computed on a record                   *)
(*   state: current_state, tx: the bus, out: the messages of this call,    *)
(*   err: "none" or the error the call returns, pubs: broadcasts attempted *)
(* failAt is the broadcast of the call that fails (0: none does).          *)

Begin(state, tx) == [state |-> state, tx |-> tx, out |-> <<>>, err |-> "none", pubs |-> 0]

\* `?` on an Err: the call returns, nothing after it runs
Fail(c, kind) == IF c.err # "none" THEN c ELSE [c EXCEPT !.err = kind]

\* variant: the message is put in front of those already on the bus
Broadcast_Prepends(c, msg, failAt) ==
    IF c.err # "none" THEN c
    ELSE IF c.pubs + 1 = failAt
         THEN [c EXCEPT !.pubs = @ + 1, !.err = "PublishError"]
         ELSE [c EXCEPT !.pubs = @ + 1, !.tx = <<msg>> \o @, !.out = Append(@, msg)]

\* self.ceremony_tx.broadcast(msg)?
Broadcast(c, msg, failAt) ==
    IF c.err # "none" THEN c
    ELSE IF c.pubs + 1 = failAt
         THEN [c EXCEPT !.pubs = @ + 1, !.err = "PublishError"]
         ELSE [c EXCEPT !.pubs = @ + 1, !.tx = Append(@, msg), !.out = Append(@, msg)]

\* self.current_state = s
SetState(c, s) == IF c.err # "none" THEN c ELSE [c EXCEPT !.state = s]

\* variant: every dropped participant is reported as a contributor
ParticipantRole_AlwaysContributor(participant_type_s) ==
    CASE participant_type_s = "contributor" -> "Contributor"
      [] participant_type_s = "verifier" -> "Contributor"
      [] OTHER -> "unknown"

ParticipantRole(participant_type_s) ==
    CASE participant_type_s = "contributor" -> "Contributor"
      [] participant_type_s = "verifier" -> "Verifier"
      [] OTHER -> "unknown"

check_participant_dropped(c, line, failAt) ==
    IF c.err # "none" \/ DROPPED_PARTICIPANT_RE(line) = {} THEN c
    ELSE LET captures == line[LastIndex(DROPPED_PARTICIPANT_RE(line))]
             address_str == captures.address
             participant_type_s == captures.participant_type
         IN  IF ~AleoPublicKeyFromStrOk(address_str) THEN Fail(c, "AddressParseError")
             ELSE IF ParticipantRole(participant_type_s) = "unknown"
                  THEN Fail(c, "UnknownRoleError")
                  ELSE Broadcast(c, Msg_ParticipantDropped(ParticipantRole(participant_type_s),
                                                           address_str), failAt)

\* variant: the boot-completion pattern is not tested
Arm_ProcessStarted_AnyLine(c, line, failAt) ==
    SetState(Broadcast(c, Msg_RoundWaitingForParticipants(1), failAt),
             State_RoundWaitingForParticipants(1))

\* variant: the state is set before the message is broadcast
Arm_ProcessStarted_StateFirst(c, line, failAt) ==
    IF BOOTED_RE(line)
    THEN Broadcast(SetState(c, State_RoundWaitingForParticipants(1)),
                   Msg_RoundWaitingForParticipants(1), failAt)
    ELSE c

Arm_ProcessStarted(c, line, failAt) ==
    IF BOOTED_RE(line)
    THEN SetState(Broadcast(c, Msg_RoundWaitingForParticipants(1), failAt),
                  State_RoundWaitingForParticipants(1))
    ELSE c

\* variant: the round announced by the line is parsed and reported
Arm_RoundWaitingForParticipants_UsesCapture(c, round, line, failAt) ==
    LET c1 == check_participant_dropped(c, line, failAt)
        captured == line[LastIndex({i \in 1..Len(line) : RoundStartedOk(line[i])})].round
    IN  IF ROUND_STARTED_RE(line)
        THEN IF ~U64FromStrOk(captured) THEN Fail(c1, "NumberParseError")
             ELSE SetState(Broadcast(c1, Msg_RoundStarted(U64FromStr(captured)), failAt),
                           State_RoundRunning(U64FromStr(captured)))
        ELSE c1

Arm_RoundWaitingForParticipants(c, round, line, failAt) ==
    LET c1 == check_participant_dropped(c, line, failAt)
    IN  IF ROUND_STARTED_RE(line)
        THEN SetState(Broadcast(c1, Msg_RoundStarted(round), failAt), State_RoundRunning(round))
        ELSE c1

\* variant: a chunk that does not parse is passed over
SuccessfulContribution_SkipsBadChunk(c, line, failAt) ==
    IF c.err # "none" \/ SUCCESSFUL_CONTRIBUTION_RE(line) = {} THEN c
    ELSE LET captures == line[LastIndex(SUCCESSFUL_CONTRIBUTION_RE(line))]
             address_str == captures.address
         IN  IF ~U64FromStrOk(captures.chunk) THEN c
             ELSE IF ~AleoPublicKeyFromStrOk(address_str) THEN Fail(c, "AddressParseError")
             ELSE Broadcast(c, Msg_SuccessfulContribution(address_str,
                                                          U64FromStr(captures.chunk)), failAt)

\* the successful-contribution block of the RoundRunning arm
SuccessfulContribution(c, line, failAt) ==
    IF c.err # "none" \/ SUCCESSFUL_CONTRIBUTION_RE(line) = {} THEN c
    ELSE LET captures == line[LastIndex(SUCCESSFUL_CONTRIBUTION_RE(line))]
             address_str == captures.address
         IN  IF ~U64FromStrOk(captures.chunk) THEN Fail(c, "NumberParseError")
             ELSE IF ~AleoPublicKeyFromStrOk(address_str) THEN Fail(c, "AddressParseError")
             ELSE Broadcast(c, Msg_SuccessfulContribution(address_str,
                                                          U64FromStr(captures.chunk)), failAt)

\* variant: the no-contributors line moves straight to the next round
Arm_RoundRunning_SkipsFinished(c, round, line, failAt) ==
    LET c1 == check_participant_dropped(c, line, failAt)
        c2 == IF ROUND_STARTED_AGGREGATION_RE(line)
              THEN SetState(Broadcast(c1, Msg_RoundStartedAggregation(round), failAt),
                            State_RoundAggregating(round))
              ELSE c1
        c3 == IF ROUND_RESTARTED_NO_CONTRIBUTORS_RE(line)
              THEN SetState(Broadcast(c2, Msg_Shutdown("TestFinished"), failAt),
                            State_RoundWaitingForParticipants(round + 1))
              ELSE c2
    IN  SuccessfulContribution(c3, line, failAt)

\* variant: the no-contributors line ends the round without a Shutdown
Arm_RoundRunning_NoShutdown(c, round, line, failAt) ==
    LET c1 == check_participant_dropped(c, line, failAt)
        c2 == IF ROUND_STARTED_AGGREGATION_RE(line)
              THEN SetState(Broadcast(c1, Msg_RoundStartedAggregation(round), failAt),
                            State_RoundAggregating(round))
              ELSE c1
        c3 == IF ROUND_RESTARTED_NO_CONTRIBUTORS_RE(line)
              THEN SetState(c2, State_RoundFinished(round))
              ELSE c2
    IN  SuccessfulContribution(c3, line, failAt)

Arm_RoundRunning(c, round, line, failAt) ==
    LET c1 == check_participant_dropped(c, line, failAt)
        c2 == IF ROUND_STARTED_AGGREGATION_RE(line)
              THEN SetState(Broadcast(c1, Msg_RoundStartedAggregation(round), failAt),
                            State_RoundAggregating(round))
              ELSE c1
        c3 == IF ROUND_RESTARTED_NO_CONTRIBUTORS_RE(line)
              THEN SetState(Broadcast(c2, Msg_Shutdown("TestFinished"), failAt),
                            State_RoundFinished(round))
              ELSE c2
    IN  SuccessfulContribution(c3, line, failAt)

\* variant: contributions are still reported while aggregating
Arm_RoundAggregating_TestsContribution(c, round, line, failAt) ==
    LET c1 == IF ROUND_AGGREGATED_RE(line)
              THEN SetState(Broadcast(c, Msg_RoundAggregated(round), failAt),
                            State_RoundWaitingForFinish(round))
              ELSE c
    IN  SuccessfulContribution(c1, line, failAt)

\* variant: dropped participants are still reported while aggregating
Arm_RoundAggregating_ChecksDropped(c, round, line, failAt) ==
    LET c1 == check_participant_dropped(c, line, failAt)
    IN  IF ROUND_AGGREGATED_RE(line)
        THEN SetState(Broadcast(c1, Msg_RoundAggregated(round), failAt),
                      State_RoundWaitingForFinish(round))
        ELSE c1

Arm_RoundAggregating(c, round, line, failAt) ==
    IF ROUND_AGGREGATED_RE(line)
    THEN SetState(Broadcast(c, Msg_RoundAggregated(round), failAt),
                  State_RoundWaitingForFinish(round))
    ELSE c

\* variant: the state is left as it was after RoundFinished is broadcast
Arm_RoundWaitingForFinish_StaysWaiting(c, round, line, failAt) ==
    IF ROUND_FINISHED_RE(line)
    THEN Broadcast(c, Msg_RoundFinished(round), failAt)
    ELSE c

Arm_RoundWaitingForFinish(c, round, line, failAt) ==
    IF ROUND_FINISHED_RE(line)
    THEN SetState(Broadcast(c, Msg_RoundFinished(round), failAt), State_RoundFinished(round))
    ELSE c

\* variant: the machine rolls back to round 0, as the coordinator's message says
Arm_RoundFinished_RollsBack(c, round, line, failAt) ==
    SetState(Broadcast(c, Msg_RoundWaitingForParticipants(0), failAt),
             State_RoundWaitingForParticipants(0))

\* variant: an empty line does not advance the machine
Arm_RoundFinished_SkipsEmpty(c, round, line, failAt) ==
    IF line = <<>> THEN c
    ELSE SetState(Broadcast(c, Msg_RoundWaitingForParticipants(round + 1), failAt),
                  State_RoundWaitingForParticipants(round + 1))

\* variant: the next round keeps the number of the finished one
Arm_RoundFinished_KeepsRound(c, round, line, failAt) ==
    SetState(Broadcast(c, Msg_RoundWaitingForParticipants(round), failAt),
             State_RoundWaitingForParticipants(round))

Arm_RoundFinished(c, round, line, failAt) ==
    SetState(Broadcast(c, Msg_RoundWaitingForParticipants(round + 1), failAt),
             State_RoundWaitingForParticipants(round + 1))

\* the arm is chosen by the state the call begins in
parse_output_line(state, tx, line, failAt) ==
    LET c == Begin(state, tx)
        round == state.round
    IN  CASE state.tag = "ProcessStarted" -> Arm_ProcessStarted(c, line, failAt)
          [] state.tag = "RoundWaitingForParticipants" ->
                 Arm_RoundWaitingForParticipants(c, round, line, failAt)
          [] state.tag = "RoundRunning" -> Arm_RoundRunning(c, round, line, failAt)
          [] state.tag = "RoundAggregating" -> Arm_RoundAggregating(c, round, line, failAt)
          [] state.tag = "RoundWaitingForFinish" ->
                 Arm_RoundWaitingForFinish(c, round, line, failAt)
          [] state.tag = "RoundFinished" -> Arm_RoundFinished(c, round, line, failAt)

-----------------------------------------------------------------------------
(* The lines fed to the model *)

L_Empty == <<>>
L_Other == <<FragOther>>
L_Booted == <<FragBooted>>
L_Advanced1 == <<FragAdvanced(<<"1">>)>>
L_Advanced7 == <<FragAdvanced(<<"7">>)>>
L_AdvancedX == <<FragAdvanced(<<"x">>)>>
L_AdvancedOverflow ==
    <<FragAdvanced(
        <<"1","8","4","4","6","7","4","4","0","7","3","7","0","9","5","5","1","6","1","6">>)>>
L_StartAgg == <<FragStartAgg(<<"1">>)>>
L_Aggregated == <<FragAggregated(<<"1">>)>>
L_Finished == <<FragFinished(<<"1">>)>>
L_NoContributors == <<FragNoContributors>>
L_DropContributor == <<FragDropping("aleo1qq", "contributor")>>
L_DropVerifier == <<FragDropping("aleo1zz", "verifier")>>
L_DropBadAddress == <<FragDropping("aleo1short", "contributor")>>
L_DropUnknownRole == <<FragDropping("aleo1qq", "observer")>>
L_DropNoAddress == <<FragDropping("bob", "verifier")>>
L_Contribution == <<FragContribution("aleo1qq", <<"3">>)>>
L_ContributionOverflow ==
    <<FragContribution("aleo1zz",
        <<"1","8","4","4","6","7","4","4","0","7","3","7","0","9","5","5","1","6","1","6">>)>>
L_ContributionBadAddress == <<FragContribution("aleo1short", <<"0">>)>>
L_ContributionNoChunk == <<FragContribution("aleo1qq", <<"x">>)>>
L_StartAggNoContributors == <<FragStartAgg(<<"1">>), FragNoContributors>>
L_StartAggContribution == <<FragStartAgg(<<"1">>), FragContribution("aleo1zz", <<"0","7">>)>>
L_NoContributorsContribution == <<FragNoContributors, FragContribution("aleo1qq", <<"3">>)>>
L_DropAdvanced == <<FragDropping("aleo1zz", "contributor"), FragAdvanced(<<"1">>)>>
L_DropBadThenGood ==
    <<FragDropping("aleo1short", "contributor"), FragDropping("aleo1zz", "verifier")>>
L_DropGoodThenBad ==
    <<FragDropping("aleo1qq", "verifier"), FragDropping("aleo1short", "verifier")>>
L_DropBadNoContributors == <<FragDropping("aleo1short", "verifier"), FragNoContributors>>
L_DropUnknownRoleAdvanced == <<FragDropping("aleo1zz", "observer"), FragAdvanced(<<"2">>)>>
L_All ==
    <<FragDropping("aleo1qq", "contributor"), FragStartAgg(<<"1">>), FragNoContributors,
      FragContribution("aleo1zz", <<"3">>)>>

Lines ==
    {L_Empty, L_Other, L_Booted, L_Advanced1, L_Advanced7, L_AdvancedX, L_StartAgg,
     L_Aggregated, L_Finished, L_NoContributors, L_DropContributor, L_DropVerifier,
     L_DropBadAddress, L_DropUnknownRole, L_DropNoAddress, L_Contribution,
     L_ContributionOverflow, L_ContributionBadAddress, L_ContributionNoChunk,
     L_StartAggNoContributors, L_StartAggContribution, L_NoContributorsContribution,
     L_DropAdvanced, L_DropBadThenGood, L_DropGoodThenBad, L_DropBadNoContributors,
     L_DropUnknownRoleAdvanced, L_All, L_AdvancedOverflow}

\* the lines the coordinator's stdout delivers in the specification of the loop
StreamLines ==
    {L_Empty, L_Booted, L_Advanced1, L_NoContributors, L_DropContributor, L_DropBadAddress,
     L_DropUnknownRole, L_ContributionOverflow, L_All}

-----------------------------------------------------------------------------
(* check_participants_in_round *)

\* the ids that participants have on the coordinator
ParticipantIds == {"aleo1qq.contributor", "aleo1zz.contributor"}

SeqsUpTo(S, n) == UNION {[1..k -> S] : k \in 0..n}

\* Contributor and Verifier values, known here by what id_on_coordinator()
\* returns for them
Participants == [id : ParticipantIds]

id_on_coordinator(participant) == participant.id

\* struct RoundState
RoundState(contributor_ids, verifier_ids) ==
    [contributor_ids |-> contributor_ids, verifier_ids |-> verifier_ids]

\* what reading and deserializing state.json can give
StateFiles ==
    {[kind |-> k, state |-> RoundState(<<>>, <<>>)] : k \in {"unreadable", "undeserializable"}}
        \cup {[kind |-> "parsed", state |-> RoundState(c, v)] :
                c \in SeqsUpTo(ParticipantIds, MaxIds), v \in SeqsUpTo(ParticipantIds, MaxIds)}

CheckOk == [status |-> "Ok", id |-> ""]
CheckErr(kind, id) == [status |-> kind, id |-> id]
CheckPending == [status |-> "pending", id |-> ""]

\* state.contributor_ids.iter().find(|round_contributor_id| ... == id)
find(ids, id) == \E i \in 1..Len(ids) : ids[i] = id

\* variant: the loop goes on after a missing contributor and reports the last
RECURSIVE ForContributors_ReportsLast(_, _)
ForContributors_ReportsLast(cs, state) ==
    IF cs = <<>> THEN CheckOk
    ELSE LET rest == ForContributors_ReportsLast(Tail(cs), state)
         IN  IF rest.status # "Ok" \/ find(state.contributor_ids, id_on_coordinator(Head(cs)))
             THEN rest
             ELSE CheckErr("MissingContributor", id_on_coordinator(Head(cs)))

\* for contributor in contributors { ... .find(..).ok_or_else(..)?; }  Ok(())
RECURSIVE ForContributors(_, _)
ForContributors(cs, state) ==
    IF cs = <<>> THEN CheckOk
    ELSE IF find(state.contributor_ids, id_on_coordinator(Head(cs)))
         THEN ForContributors(Tail(cs), state)
         ELSE CheckErr("MissingContributor", id_on_coordinator(Head(cs)))

check_participants_in_round(file, cs, vs) ==
    IF file.kind = "unreadable" THEN CheckErr("ReadError", "")
    ELSE IF file.kind = "undeserializable" THEN CheckErr("DeserializeError", "")
    ELSE ForContributors(cs, file.state)

\* no check_participants_in_round call is under way
NoCheck ==
    /\ contributors = <<>>
    /\ verifiers = <<>>
    /\ state_file = [kind |-> "unreadable", state |-> RoundState(<<>>, <<>>)]
    /\ check_result = CheckPending

-----------------------------------------------------------------------------
(* CoordinatorStateReporter::process_started and the state before the loop *)

process_started == ProcessStarted

Init ==
    /\ NoCheck
    /\ current_state = process_started
    /\ ceremony_tx = <<>>
    /\ log_file = <<>>
    /\ pc = "open"
    /\ cur = <<>>
    /\ result = "running"
    /\ lineNo = 0
    /\ stream = <<>>
    /\ produced = <<>>
    /\ pre_state = process_started

\* Which broadcast of a call fails, if any: 0 (none), or one of those the call
\* attempts when none fails.
FailAtChoices(state, line) ==
    0..parse_output_line(state, <<>>, line, 0).pubs

\* state_reporter.parse_output_line(&line) and what the caller sees of it
CallParseOutputLine(line, failAt) ==
    LET r == parse_output_line(current_state, ceremony_tx, line, failAt)
    IN  /\ current_state' = r.state
        /\ ceremony_tx' = r.tx
        /\ produced' = Append(produced, r.out)
        /\ pre_state' = current_state
        /\ result' = IF r.err = "none" THEN "running" ELSE r.err

-----------------------------------------------------------------------------
(* monitor_coordinator *)

\* OpenOptions::new().append(true).create(true).open(log_file_path)?
OpenLogFile ==
    /\ pc = "open"
    /\ \E ok \in BOOLEAN :
          /\ pc' = IF ok THEN "read" ELSE "failed"
          /\ result' = IF ok THEN "running" ELSE "OpenError"
    /\ UNCHANGED <<checkVars, current_state, ceremony_tx, log_file, cur, lineNo, stream, produced,
                   pre_state>>

\* variant: the line is written to the log file as soon as it is read
ReadLine_ArchivesFirst ==
    /\ pc = "read"
    /\ lineNo < MaxStream
    /\ \E line \in StreamLines :
          /\ cur' = line
          /\ stream' = Append(stream, [ok |-> TRUE, line |-> line])
          /\ log_file' = Append(log_file, [text |-> line, newline |-> TRUE])
    /\ lineNo' = lineNo + 1
    /\ pc' = "parse"
    /\ UNCHANGED <<checkVars, current_state, ceremony_tx, result, produced, pre_state>>

\* buf_pipe.lines() yields Ok(line)
ReadLine ==
    /\ pc = "read"
    /\ lineNo < MaxStream
    /\ \E line \in StreamLines :
          /\ cur' = line
          /\ stream' = Append(stream, [ok |-> TRUE, line |-> line])
    /\ lineNo' = lineNo + 1
    /\ pc' = "parse"
    /\ UNCHANGED <<checkVars, current_state, ceremony_tx, log_file, result, produced, pre_state>>

\* variant: a read error ends the loop
ReadError_Stops ==
    /\ pc = "read"
    /\ lineNo < MaxStream
    /\ stream' = Append(stream, [ok |-> FALSE, line |-> <<>>])
    /\ lineNo' = lineNo + 1
    /\ pc' = "failed"
    /\ result' = "ReadError"
    /\ UNCHANGED <<checkVars, current_state, ceremony_tx, log_file, cur, produced, pre_state>>

\* buf_pipe.lines() yields Err(error): tracing::error!, next iteration
ReadError ==
    /\ pc = "read"
    /\ lineNo < MaxStream
    /\ stream' = Append(stream, [ok |-> FALSE, line |-> <<>>])
    /\ lineNo' = lineNo + 1
    /\ pc' = "read"
    /\ UNCHANGED <<checkVars, current_state, ceremony_tx, log_file, cur, result, produced, pre_state>>

\* state_reporter.parse_output_line(&line)?
ParseLine ==
    /\ pc = "parse"
    /\ \E failAt \in FailAtChoices(current_state, cur) : CallParseOutputLine(cur, failAt)
    /\ pc' = IF result' = "running" THEN "archive" ELSE "failed"
    /\ UNCHANGED <<checkVars, log_file, cur, lineNo, stream>>

\* log_file.write_all(line)?; log_file.write_all("\n")?
\* an entry of log_file is the text written and whether its newline followed
WriteOutcomes == {"ok", "line_fails", "newline_fails"}

ArchiveLine ==
    /\ pc = "archive"
    /\ \E w \in WriteOutcomes :
          /\ log_file' = CASE w = "ok" -> Append(log_file, [text |-> cur, newline |-> TRUE])
                           [] w = "newline_fails" ->
                                  Append(log_file, [text |-> cur, newline |-> FALSE])
                           [] w = "line_fails" -> log_file
          /\ pc' = IF w = "ok" THEN "read" ELSE "failed"
          /\ result' = IF w = "ok" THEN "running" ELSE "WriteError"
    /\ UNCHANGED <<checkVars, current_state, ceremony_tx, cur, lineNo, stream, produced, pre_state>>

\* the iterator completes: Ok(())
EndOfStream ==
    /\ pc = "read"
    /\ pc' = "done"
    /\ result' = "Ok"
    /\ UNCHANGED <<checkVars, current_state, ceremony_tx, log_file, cur, lineNo, stream, produced,
                   pre_state>>

Next ==
    \/ OpenLogFile
    \/ ReadLine
    \/ ReadError
    \/ ParseLine
    \/ ArchiveLine
    \/ EndOfStream

Spec == Init /\ [][Next]_vars

\* The loop on a finite stream of at most MaxLive line results.
ReadLineLive ==
    /\ pc = "read"
    /\ lineNo < MaxLive
    /\ \E line \in StreamLines :
          /\ cur' = line
          /\ stream' = Append(stream, [ok |-> TRUE, line |-> line])
    /\ lineNo' = lineNo + 1
    /\ pc' = "parse"
    /\ UNCHANGED <<checkVars, current_state, ceremony_tx, log_file, result, produced, pre_state>>

\* variant: a read error ends the loop with an error
ReadErrorLive_Stops ==
    /\ pc = "read"
    /\ lineNo < MaxLive
    /\ stream' = Append(stream, [ok |-> FALSE, line |-> <<>>])
    /\ lineNo' = lineNo + 1
    /\ pc' = "failed"
    /\ result' = "ReadError"
    /\ UNCHANGED <<checkVars, current_state, ceremony_tx, log_file, cur, produced, pre_state>>

ReadErrorLive ==
    /\ pc = "read"
    /\ lineNo < MaxLive
    /\ stream' = Append(stream, [ok |-> FALSE, line |-> <<>>])
    /\ lineNo' = lineNo + 1
    /\ pc' = "read"
    /\ UNCHANGED <<checkVars, current_state, ceremony_tx, log_file, cur, result, produced, pre_state>>

NextLive ==
    \/ OpenLogFile
    \/ ReadLineLive
    \/ ReadErrorLive
    \/ ParseLine
    \/ ArchiveLine
    \/ EndOfStream

\* monitor_coordinator runs on its own thread and each of its steps returns:
\* a step that can be taken is taken.  The stream is finite: after MaxLive
\* line results only its end is left.
SpecLive == Init /\ [][NextLive]_vars /\ WF_vars(NextLive)

-----------------------------------------------------------------------------
(* The state machine alone: a fresh CoordinatorStateReporter given lines   *)
(* one after another until a call returns an error.                        *)

InitReporter ==
    /\ NoCheck
    /\ current_state = process_started
    /\ ceremony_tx = <<>>
    /\ log_file = <<>>
    /\ pc = "read"
    /\ cur = <<>>
    /\ result = "running"
    /\ lineNo = 0
    /\ stream = <<>>
    /\ produced = <<>>
    /\ pre_state = process_started

ProcessLine ==
    /\ pc = "read"
    /\ lineNo < MaxLines
    /\ \E line \in Lines :
          /\ cur' = line
          /\ \E failAt \in FailAtChoices(current_state, line) :
                CallParseOutputLine(line, failAt)
    /\ lineNo' = lineNo + 1
    /\ pc' = IF result' = "running" THEN "read" ELSE "failed"
    /\ UNCHANGED <<checkVars, log_file, stream>>

NextReporter == ProcessLine

SpecReporter == InitReporter /\ [][NextReporter]_vars

-----------------------------------------------------------------------------
(* The state machine fed the lines that move it through the rounds *)

RoundLines ==
    {L_Empty, L_Booted, L_Advanced7, L_StartAgg, L_Aggregated, L_Finished, L_NoContributors}

ProcessRoundLine ==
    /\ pc = "read"
    /\ lineNo < MaxRoundLines
    /\ \E line \in RoundLines :
          /\ cur' = line
          /\ \E failAt \in FailAtChoices(current_state, line) :
                CallParseOutputLine(line, failAt)
    /\ lineNo' = lineNo + 1
    /\ pc' = IF result' = "running" THEN "read" ELSE "failed"
    /\ UNCHANGED <<checkVars, log_file, stream>>

NextRounds == ProcessRoundLine

SpecRounds == InitReporter /\ [][NextRounds]_vars

-----------------------------------------------------------------------------
(* check_participants_in_round called on its own *)

InitCheck ==
    /\ contributors \in SeqsUpTo(Participants, MaxIds)
    /\ verifiers \in SeqsUpTo(Participants, MaxIds)
    /\ state_file \in StateFiles
    /\ check_result = CheckPending
    /\ current_state = process_started
    /\ ceremony_tx = <<>>
    /\ log_file = <<>>
    /\ pc = "check"
    /\ cur = <<>>
    /\ result = "running"
    /\ lineNo = 0
    /\ stream = <<>>
    /\ produced = <<>>
    /\ pre_state = process_started

CheckParticipantsInRound ==
    /\ pc = "check"
    /\ check_result' = check_participants_in_round(state_file, contributors, verifiers)
    /\ pc' = "checked"
    /\ UNCHANGED <<contributors, verifiers, state_file, current_state, ceremony_tx, log_file,
                   cur, result, lineNo, stream, produced, pre_state>>

NextCheck == CheckParticipantsInRound

SpecCheck == InitCheck /\ [][NextCheck]_vars

-----------------------------------------------------------------------------
(* Vocabulary of the properties *)

\* a parse_output_line call has returned and cur is the line it was given
LastCall == produced # <<>> /\ pc # "parse"

\* the messages the last call broadcast
LastOut == produced[Len(produced)]

RoundMsgTypes ==
    {"RoundWaitingForParticipants", "RoundStarted", "RoundStartedAggregation",
     "RoundAggregated", "RoundFinished"}

RECURSIVE Flatten(_)
Flatten(ss) == IF ss = <<>> THEN <<>> ELSE Head(ss) \o Flatten(Tail(ss))

IsOk(e) == e.ok
OkLines(st) == LET sel == SelectSeq(st, IsOk) IN [i \in 1..Len(sel) |-> sel[i].line]

ArchivedTexts == [i \in 1..Len(log_file) |-> log_file[i].text]

TypesOf(msgs) == {msgs[i].type : i \in 1..Len(msgs)}

\* the edges of the lifecycle graph
Edge(a, b) ==
    \/ a.tag = "ProcessStarted" /\ b = State_RoundWaitingForParticipants(1)
    \/ a.tag = "RoundWaitingForParticipants" /\ b = State_RoundRunning(a.round)
    \/ a.tag = "RoundRunning" /\ b = State_RoundAggregating(a.round)
    \/ a.tag = "RoundRunning" /\ b = State_RoundFinished(a.round)
    \/ a.tag = "RoundAggregating" /\ b = State_RoundWaitingForFinish(a.round)
    \/ a.tag = "RoundWaitingForFinish" /\ b = State_RoundFinished(a.round)
    \/ a.tag = "RoundFinished" /\ b = State_RoundWaitingForParticipants(a.round + 1)

-----------------------------------------------------------------------------
\* C1: every parse_output_line call leaves the phase as it was or moves it
\* along exactly one edge of the lifecycle graph; no other change happens.
C1_LifecycleEdges ==
    produced # <<>> => (current_state = pre_state \/ Edge(pre_state, current_state))

\* a second round is being waited for, the first one having ended
C1_Witness ==
    /\ pre_state = State_RoundFinished(1)
    /\ current_state = State_RoundWaitingForParticipants(2)
    /\ Msg_RoundStarted(1) \in {ceremony_tx[i] : i \in 1..Len(ceremony_tx)}

\* C2: the round numbers of the round messages on the bus never decrease
\* from one message to the next.
C2_RoundsMonotonic ==
    \A i \in 1..Len(ceremony_tx) : \A j \in i..Len(ceremony_tx) :
        (ceremony_tx[i].type \in RoundMsgTypes /\ ceremony_tx[j].type \in RoundMsgTypes)
            => ceremony_tx[i].round <= ceremony_tx[j].round

C2_Witness ==
    /\ Len(ceremony_tx) >= 4
    /\ ceremony_tx[1] = Msg_RoundWaitingForParticipants(1)
    /\ ceremony_tx[Len(ceremony_tx)] = Msg_RoundStarted(2)

\* C3: the bus holds the messages of the first processed line, then those
\* of the second, and so on, each line's in the order the call broadcast
\* them; there is one batch per line given to the state machine.
C3_PublishedInLineOrder ==
    /\ ceremony_tx = Flatten(produced)
    /\ Len(produced) = Len(OkLines(stream)) - (IF pc = "parse" THEN 1 ELSE 0)

C3_Witness ==
    /\ Len(produced) = 3
    /\ Len(produced[1]) = 1 /\ Len(produced[2]) = 1 /\ Len(produced[3]) = 4
    /\ ceremony_tx[2] = Msg_RoundStarted(1)
    /\ ceremony_tx[6].type = "SuccessfulContribution"

\* C4: a fresh machine is in ProcessStarted; there, a line without the
\* boot-completion phrase broadcasts nothing and leaves ProcessStarted, and
\* a boot-completion line broadcasts exactly RoundWaitingForParticipants(1)
\* and moves to RoundWaitingForParticipants(1) (the broadcast succeeding).
C4_StartUp ==
    /\ produced = <<>> => current_state = ProcessStarted
    /\ (LastCall /\ pre_state = ProcessStarted /\ result # "PublishError") =>
          IF BOOTED_RE(cur)
          THEN /\ LastOut = <<Msg_RoundWaitingForParticipants(1)>>
               /\ current_state = State_RoundWaitingForParticipants(1)
               /\ result = "running"
          ELSE /\ LastOut = <<>>
               /\ current_state = ProcessStarted
               /\ result = "running"

\* the boot line came after lines that are not boot lines
C4_Witness ==
    /\ LastCall
    /\ Len(produced) >= 2
    /\ pre_state = ProcessStarted
    /\ cur = L_Booted
    /\ ceremony_tx = <<Msg_RoundWaitingForParticipants(1)>>
    /\ current_state = State_RoundWaitingForParticipants(1)

\* C5: in RoundFinished(r) the next call, whatever its line, broadcasts
\* exactly RoundWaitingForParticipants(r+1) and moves to
\* RoundWaitingForParticipants(r+1) (the broadcast succeeding); the line is
\* not examined, so no capture of it can fail.
C5_RoundFinishedTransient ==
    (LastCall /\ pre_state.tag = "RoundFinished") =>
        \/ /\ result = "running"
           /\ LastOut = <<Msg_RoundWaitingForParticipants(pre_state.round + 1)>>
           /\ current_state = State_RoundWaitingForParticipants(pre_state.round + 1)
        \/ result = "PublishError"

C5_Witness ==
    /\ LastCall
    /\ pre_state = State_RoundFinished(1)
    /\ cur = L_Empty
    /\ LastOut = <<Msg_RoundWaitingForParticipants(2)>>
    /\ current_state = State_RoundWaitingForParticipants(2)

-----------------------------------------------------------------------------
\* the captures check_participant_dropped reads from a matching line
DropCapture(line) == line[LastIndex(DROPPED_PARTICIPANT_RE(line))]

\* the line matches no pattern that moves the machine out of `state`
NoTransitionPattern(state, line) ==
    IF state.tag = "RoundWaitingForParticipants"
    THEN ~ROUND_STARTED_RE(line)
    ELSE ~ROUND_STARTED_AGGREGATION_RE(line) /\ ~ROUND_RESTARTED_NO_CONTRIBUTORS_RE(line)

\* C6: in RoundWaitingForParticipants(r) or RoundRunning(r), a line matching
\* participant-dropped with a valid address broadcasts one
\* ParticipantDropped carrying the captured address and the captured role,
\* and this leaves the phase unchanged (it is the first broadcast of the
\* call; should it fail, the call broadcasts nothing).
C6_ParticipantDropped ==
    (/\ LastCall
     /\ pre_state.tag \in {"RoundWaitingForParticipants", "RoundRunning"}
     /\ DROPPED_PARTICIPANT_RE(cur) # {}
     /\ AleoPublicKeyFromStrOk(DropCapture(cur).address)) =>
        \/ result = "PublishError" /\ LastOut = <<>> /\ current_state = pre_state
        \/ /\ LastOut # <<>>
           /\ LastOut[1] =
                [type |-> "ParticipantDropped",
                 role |-> IF DropCapture(cur).participant_type = "contributor"
                          THEN "Contributor" ELSE "Verifier",
                 address |-> DropCapture(cur).address]
           /\ Cardinality({i \in 1..Len(LastOut) : LastOut[i].type = "ParticipantDropped"}) = 1
           /\ NoTransitionPattern(pre_state, cur) => current_state = pre_state

C6_Witness ==
    /\ LastCall
    /\ pre_state = State_RoundRunning(1)
    /\ cur = L_DropVerifier
    /\ LastOut = <<Msg_ParticipantDropped("Verifier", "aleo1zz")>>
    /\ current_state = State_RoundRunning(1)

-----------------------------------------------------------------------------
\* the round in effect when call k began: that of the last
\* RoundWaitingForParticipants broadcast before it
RoundBefore(k) ==
    LET msgs == Flatten(SubSeq(produced, 1, k - 1))
        idx == {i \in 1..Len(msgs) : msgs[i].type = "RoundWaitingForParticipants"}
    IN  IF idx = {} THEN 0 ELSE msgs[LastIndex(idx)].round

ShutdownCalls == {k \in 1..Len(produced) : "Shutdown" \in TypesOf(produced[k])}

\* a no-contributors line processed without error in RoundRunning(r)
\* broadcasts Shutdown(TestFinished) and ends in RoundFinished(r)
C7_ShutdownStep ==
    (/\ LastCall
     /\ pre_state.tag = "RoundRunning"
     /\ ROUND_RESTARTED_NO_CONTRIBUTORS_RE(cur)
     /\ result = "running") =>
        /\ Msg_Shutdown("TestFinished") \in {LastOut[i] : i \in 1..Len(LastOut)}
        /\ current_state = State_RoundFinished(pre_state.round)

\* the call after the one that broadcast Shutdown
C7_NextStep ==
    (/\ LastCall
     /\ Len(produced) >= 2
     /\ "Shutdown" \in TypesOf(produced[Len(produced) - 1])
     /\ result = "running") =>
        /\ pre_state.tag = "RoundFinished"
        /\ LastOut = <<Msg_RoundWaitingForParticipants(pre_state.round + 1)>>
        /\ current_state = State_RoundWaitingForParticipants(pre_state.round + 1)

\* C7 as the claim states it: a no-contributors line in RoundRunning(r)
\* broadcasts Shutdown(TestFinished) and ends in RoundFinished(r), the next
\* line gives RoundWaitingForParticipants(r+1), and round r has no
\* RoundStartedAggregation(r), RoundAggregated(r) or RoundFinished(r).
C7_Original ==
    /\ C7_ShutdownStep
    /\ C7_NextStep
    /\ \A k \in ShutdownCalls : \A n \in 1..Len(produced) : \A i \in 1..Len(produced[n]) :
          produced[n][i].type \in {"RoundStartedAggregation", "RoundAggregated", "RoundFinished"}
              => produced[n][i].round # RoundBefore(k)

\* C7 amended: as above, but RoundStartedAggregation(r) is broadcast for
\* that round exactly when the no-contributors line itself also matches
\* round-started-aggregation, by that call and before its Shutdown.
C7_Amended ==
    /\ C7_ShutdownStep
    /\ C7_NextStep
    /\ \A k \in ShutdownCalls : \A n \in 1..Len(produced) : \A i \in 1..Len(produced[n]) :
          /\ produced[n][i].type \in {"RoundAggregated", "RoundFinished"}
                => produced[n][i].round # RoundBefore(k)
          /\ (produced[n][i].type = "RoundStartedAggregation"
                /\ produced[n][i].round = RoundBefore(k))
                => /\ n = k
                   /\ \E j \in (i + 1)..Len(produced[n]) : produced[n][j].type = "Shutdown"
    /\ (LastCall /\ pre_state.tag = "RoundRunning" /\ result = "running"
          /\ ROUND_RESTARTED_NO_CONTRIBUTORS_RE(cur)) =>
            (ROUND_STARTED_AGGREGATION_RE(cur)
                <=> "RoundStartedAggregation" \in TypesOf(LastOut))

C7_Witness ==
    /\ LastCall
    /\ Len(produced) >= 4
    /\ produced[Len(produced) - 1] =
          <<Msg_RoundStartedAggregation(1), Msg_Shutdown("TestFinished")>>
    /\ LastOut = <<Msg_RoundWaitingForParticipants(2)>>
    /\ current_state = State_RoundWaitingForParticipants(2)

-----------------------------------------------------------------------------
\* the line has a "Dropping <address>.<role> from the ceremony" phrase
\* whose role token is neither contributor nor verifier
HasUnknownRoleDrop(line) ==
    \E i \in 1..Len(line) :
        /\ line[i].kind = "Dropping"
        /\ line[i].address \in AddressReTexts
        /\ line[i].participant_type \notin {"contributor", "verifier"}

\* C8 as the claim states it: such a line, processed in
\* RoundWaitingForParticipants or RoundRunning, ends the call with
\* UnknownRoleError and nothing is broadcast for it.
C8_Original ==
    (/\ LastCall
     /\ pre_state.tag \in {"RoundWaitingForParticipants", "RoundRunning"}
     /\ HasUnknownRoleDrop(cur)) =>
        (result = "UnknownRoleError" /\ LastOut = <<>>)

\* C8 amended: such a phrase does not match participant-dropped, so no call
\* ever returns UnknownRoleError; the phrase yields no ParticipantDropped
\* and no error, and the rest of the line is processed as usual (a
\* round-started phrase on it still starts the round).
C8_Amended ==
    /\ result # "UnknownRoleError"
    /\ (/\ LastCall
        /\ pre_state.tag \in {"RoundWaitingForParticipants", "RoundRunning"}
        /\ HasUnknownRoleDrop(cur)
        /\ DROPPED_PARTICIPANT_RE(cur) = {}) =>
           /\ "ParticipantDropped" \notin TypesOf(LastOut)
           /\ result # "AddressParseError" \/ SUCCESSFUL_CONTRIBUTION_RE(cur) # {}
           /\ (pre_state.tag = "RoundWaitingForParticipants" /\ ROUND_STARTED_RE(cur)
                 /\ result = "running") =>
                 /\ LastOut = <<Msg_RoundStarted(pre_state.round)>>
                 /\ current_state = State_RoundRunning(pre_state.round)

C8_Witness ==
    /\ LastCall
    /\ pre_state = State_RoundWaitingForParticipants(1)
    /\ cur = L_DropUnknownRoleAdvanced
    /\ result = "running"
    /\ LastOut = <<Msg_RoundStarted(1)>>
    /\ current_state = State_RoundRunning(1)

-----------------------------------------------------------------------------
ContributionCapture(line) == line[LastIndex(SUCCESSFUL_CONTRIBUTION_RE(line))]

\* the line matches a pattern that `state` tests and a capture of it is invalid
InvalidCapture(state, line) ==
    \/ /\ state.tag \in {"RoundWaitingForParticipants", "RoundRunning"}
       /\ DROPPED_PARTICIPANT_RE(line) # {}
       /\ ~AleoPublicKeyFromStrOk(DropCapture(line).address)
    \/ /\ state.tag = "RoundRunning"
       /\ SUCCESSFUL_CONTRIBUTION_RE(line) # {}
       /\ \/ ~U64FromStrOk(ContributionCapture(line).chunk)
          \/ ~AleoPublicKeyFromStrOk(ContributionCapture(line).address)

C9_CallFails ==
    (LastCall /\ InvalidCapture(pre_state, cur)) =>
        /\ pc = "failed"
        /\ result \in {"AddressParseError", "NumberParseError", "PublishError"}
        /\ stream[Len(stream)] = [ok |-> TRUE, line |-> cur]

\* C9: a line with an invalid capture under a pattern of the current phase
\* is not skipped: the call returns an error and monitor_coordinator
\* returns it; from then on no line is read, nothing is broadcast and the
\* phase does not change.
C9_InvalidCaptureHalts ==
    /\ []C9_CallFails
    /\ [][pc = "failed" =>
            /\ pc' = "failed"
            /\ UNCHANGED <<current_state, ceremony_tx, lineNo, stream, produced, result>>]_vars

C9_Witness ==
    /\ pc = "failed"
    /\ result = "NumberParseError"
    /\ pre_state = State_RoundRunning(1)
    /\ cur = L_ContributionOverflow
    /\ current_state = State_RoundRunning(1)

-----------------------------------------------------------------------------
C10_AfterReadErrors ==
    /\ Len(produced) = Len(OkLines(stream)) - (IF pc = "parse" THEN 1 ELSE 0)
    /\ pc \in {"read", "done"} => ArchivedTexts = OkLines(stream)
    /\ (stream # <<>> /\ ~stream[Len(stream)].ok) => pc \in {"read", "done"}

\* C10: a read error is not fatal: taking it changes neither the phase, the
\* bus nor the log file, the loop goes on to the next line, and the lines
\* read after it are given to the state machine and written to the log.
C10_ReadErrorNonFatal ==
    /\ []C10_AfterReadErrors
    /\ [][(Len(stream') = Len(stream) + 1 /\ ~stream'[Len(stream')].ok) =>
            /\ UNCHANGED <<current_state, ceremony_tx, log_file, produced, result>>
            /\ pc' = "read"]_vars

C10_Witness ==
    /\ pc = "done"
    /\ result = "Ok"
    /\ Len(stream) >= 3
    /\ ~stream[1].ok
    /\ stream[2] = [ok |-> TRUE, line |-> L_Booted]
    /\ ~stream[3].ok
    /\ ceremony_tx = <<Msg_RoundWaitingForParticipants(1)>>
    /\ ArchivedTexts = <<L_Booted>>

-----------------------------------------------------------------------------
ParseErrors == {"AddressParseError", "NumberParseError", "UnknownRoleError", "PublishError"}

\* C11: every line read is in the log whatever the outcome of its parse,
\* the line whose processing ends in a fatal error included: when the loop
\* is between lines, has ended, or has aborted on a parse or publish error,
\* the log holds exactly the lines read.
C11_Original ==
    (pc \in {"read", "done"} \/ (pc = "failed" /\ result \in ParseErrors))
        => ArchivedTexts = OkLines(stream)

-----------------------------------------------------------------------------
FatalErrors ==
    {"OpenError", "AddressParseError", "NumberParseError", "PublishError", "WriteError"}

\* C12: the loop always comes to an end; it ends with an error only when
\* opening the log, a capture, a broadcast or a write to the log failed, so
\* on a finite stream without such a failure it reaches the end of the
\* stream and returns Ok, in whatever phase the state machine is.
C12_Terminates ==
    /\ <>(pc \in {"done", "failed"})
    /\ [](pc = "failed" => result \in FatalErrors)
    /\ [](pc = "done" => result = "Ok" /\ Len(produced) = Len(OkLines(stream)))

\* the stream ended in the middle of a round, after a read error
C12_Witness ==
    /\ pc = "done"
    /\ result = "Ok"
    /\ current_state = State_RoundRunning(1)
    /\ Len(stream) = 3
    /\ ~stream[2].ok

-----------------------------------------------------------------------------
(* C14 *)

\* positions of the expected contributors whose id is not in the snapshot's
\* contributor list
AbsentContributors ==
    {i \in 1..Len(contributors) :
        \A j \in 1..Len(state_file.state.contributor_ids) :
            state_file.state.contributor_ids[j] # contributors[i].id}

-----------------------------------------------------------------------------
(* C15 *)

EndsRunning == {"RoundStartedAggregation", "Shutdown"}

\* C15 as stated: no SuccessfulContribution is broadcast after the
\* RoundStartedAggregation or Shutdown that ends the running phase of a round
\* and before the next RoundStarted.
C15_Original ==
    \A i \in 1..Len(ceremony_tx) : \A j \in (i + 1)..Len(ceremony_tx) :
        (ceremony_tx[i].type \in EndsRunning /\ ceremony_tx[j].type = "SuccessfulContribution")
            => \E k \in (i + 1)..(j - 1) : ceremony_tx[k].type = "RoundStarted"

\* C15 amended: a SuccessfulContribution is broadcast only by a call that
\* began in RoundRunning; it can follow the RoundStartedAggregation or
\* Shutdown of the same call, and no later call broadcasts one before a call
\* that broadcasts RoundStarted.
C15_Amended ==
    /\ (LastCall /\ "SuccessfulContribution" \in TypesOf(LastOut))
          => pre_state.tag = "RoundRunning"
    /\ \A p \in 1..Len(produced) : \A q \in (p + 1)..Len(produced) :
          (/\ TypesOf(produced[p]) \cap EndsRunning # {}
           /\ "SuccessfulContribution" \in TypesOf(produced[q]))
              => \E k \in (p + 1)..(q - 1) : "RoundStarted" \in TypesOf(produced[k])

C15_Witness ==
    /\ LastCall
    /\ pre_state = State_RoundRunning(1)
    /\ cur = L_StartAggContribution
    /\ result = "running"
    /\ current_state = State_RoundAggregating(1)
    /\ Len(LastOut) = 2
    /\ LastOut[1] = Msg_RoundStartedAggregation(1)
    /\ LastOut[2].type = "SuccessfulContribution"

-----------------------------------------------------------------------------
(* C16 *)

NoDropPhases == {"ProcessStarted", "RoundAggregating", "RoundWaitingForFinish", "RoundFinished"}

CaptureErrors == {"AddressParseError", "NumberParseError", "UnknownRoleError"}

\* C16: a call that begins in ProcessStarted, RoundAggregating,
\* RoundWaitingForFinish or RoundFinished broadcasts no ParticipantDropped
\* and returns no capture error, whatever the line; a ParticipantDropped is
\* broadcast only by a call that began in RoundWaitingForParticipants or
\* RoundRunning.
C16_DropOnlyWhenWaitingOrRunning ==
    LastCall =>
        /\ pre_state.tag \in NoDropPhases =>
              /\ "ParticipantDropped" \notin TypesOf(LastOut)
              /\ result \notin CaptureErrors
        /\ "ParticipantDropped" \in TypesOf(LastOut) =>
              pre_state.tag \in {"RoundWaitingForParticipants", "RoundRunning"}

C16_Witness ==
    /\ LastCall
    /\ pre_state = State_RoundAggregating(1)
    /\ cur = L_DropBadAddress
    /\ result = "running"
    /\ LastOut = <<>>
    /\ current_state = State_RoundAggregating(1)

-----------------------------------------------------------------------------
(* C17 *)

\* the pattern that moves the machine out of `state`, tested on the line
TransitionPattern(state, line) ==
    CASE state.tag = "RoundWaitingForParticipants" -> ROUND_STARTED_RE(line)
      [] state.tag = "RoundRunning" -> ROUND_STARTED_AGGREGATION_RE(line)
      [] state.tag = "RoundAggregating" -> ROUND_AGGREGATED_RE(line)
      [] state.tag = "RoundWaitingForFinish" -> ROUND_FINISHED_RE(line)
      [] OTHER -> FALSE

\* the message that announces the move out of `state`
TransitionMsg(state) ==
    CASE state.tag = "RoundWaitingForParticipants" -> Msg_RoundStarted(state.round)
      [] state.tag = "RoundRunning" -> Msg_RoundStartedAggregation(state.round)
      [] state.tag = "RoundAggregating" -> Msg_RoundAggregated(state.round)
      [] state.tag = "RoundWaitingForFinish" -> Msg_RoundFinished(state.round)

\* C17: RoundStarted, RoundStartedAggregation, RoundAggregated and
\* RoundFinished carry the round of the state the call began in, whatever
\* round the line announces: a line that matches the state's pattern and is
\* processed without error broadcasts the message with that round, and a
\* number parse error comes only from the chunk of a contribution.
C17_RoundFromState ==
    LastCall =>
        /\ \A i \in 1..Len(LastOut) :
              LastOut[i].type \in (RoundMsgTypes \ {"RoundWaitingForParticipants"})
                  => LastOut[i].round = pre_state.round
        /\ (TransitionPattern(pre_state, cur) /\ result = "running")
              => \E i \in 1..Len(LastOut) : LastOut[i] = TransitionMsg(pre_state)
        /\ result = "NumberParseError" =>
              /\ pre_state.tag = "RoundRunning"
              /\ SUCCESSFUL_CONTRIBUTION_RE(cur) # {}
              /\ ~U64FromStrOk(ContributionCapture(cur).chunk)

C17_Witness ==
    /\ LastCall
    /\ pre_state = State_RoundWaitingForParticipants(1)
    /\ cur = L_AdvancedOverflow
    /\ result = "running"
    /\ LastOut = <<Msg_RoundStarted(1)>>
    /\ current_state = State_RoundRunning(1)

-----------------------------------------------------------------------------
(* C18 *)

\* the state a broadcast message announces, from state s
Announced(s, m) ==
    CASE m.type = "RoundWaitingForParticipants" -> State_RoundWaitingForParticipants(m.round)
      [] m.type = "RoundStarted" -> State_RoundRunning(m.round)
      [] m.type = "RoundStartedAggregation" -> State_RoundAggregating(m.round)
      [] m.type = "RoundAggregated" -> State_RoundWaitingForFinish(m.round)
      [] m.type = "RoundFinished" -> State_RoundFinished(m.round)
      [] m.type = "Shutdown" -> State_RoundFinished(s.round)
      [] OTHER -> s

RECURSIVE PhaseAfter(_, _)
PhaseAfter(s, msgs) ==
    IF msgs = <<>> THEN s ELSE PhaseAfter(Announced(s, Head(msgs)), Tail(msgs))

\* C18: after every call the state is the one announced by the messages the
\* call has broadcast, so the state change of a message whose broadcast
\* failed is not made; a publish error is returned by monitor_coordinator
\* with no further line read and the failing line the last one processed.
C18_PublishBeforeTransition ==
    LastCall =>
        /\ current_state = PhaseAfter(pre_state, LastOut)
        /\ result = "PublishError" =>
              /\ pc = "failed"
              /\ Len(produced) = Len(OkLines(stream))
              /\ stream[Len(stream)] = [ok |-> TRUE, line |-> cur]

C18_Witness ==
    /\ LastCall
    /\ result = "PublishError"
    /\ pc = "failed"
    /\ pre_state = State_RoundRunning(1)
    /\ cur = L_All
    /\ LastOut = <<Msg_ParticipantDropped("Contributor", "aleo1qq"),
                   Msg_RoundStartedAggregation(1)>>
    /\ current_state = State_RoundAggregating(1)

-----------------------------------------------------------------------------
(* C19 *)

\* C19: the log file holds, in order, the first lines of those read without
\* error, each written after its parse_output_line call returned (so after
\* its messages were broadcast), never the line being parsed, and a step
\* only ever appends to it.
C19_ArchiveAfterParse ==
    /\ [](/\ Len(log_file) <= Len(produced)
          /\ Len(log_file) <= Len(OkLines(stream))
          /\ \A k \in 1..Len(log_file) : log_file[k].text = OkLines(stream)[k]
          /\ pc = "parse" => Len(log_file) < Len(OkLines(stream))
          /\ ceremony_tx = Flatten(produced))
    /\ [][/\ Len(log_file') >= Len(log_file)
          /\ SubSeq(log_file', 1, Len(log_file)) = log_file]_vars

C19_Witness ==
    /\ pc = "archive"
    /\ Len(log_file) = 1
    /\ Len(produced) = 2
    /\ LastOut # <<>>
    /\ ceremony_tx = Flatten(produced)
    /\ Len(stream) = 3
    /\ ~stream[2].ok

-----------------------------------------------------------------------------
(* C20 *)

IsRoundWaitingForParticipants(m) == m.type = "RoundWaitingForParticipants"

\* C20: the round of every state but ProcessStarted is at least 1, and the
\* k-th RoundWaitingForParticipants message broadcast carries round k,
\* whatever rounds the lines announce.
C20_RoundsCountFromOne ==
    /\ current_state.tag # "ProcessStarted" => current_state.round >= 1
    /\ LET waiting == SelectSeq(ceremony_tx, IsRoundWaitingForParticipants)
       IN  \A k \in 1..Len(waiting) : waiting[k].round = k

C20_Witness ==
    /\ Len(SelectSeq(ceremony_tx, IsRoundWaitingForParticipants)) = 3
    /\ current_state = State_RoundRunning(3)
    /\ cur = L_Advanced7

-----------------------------------------------------------------------------
(* C21 *)

\* the places of ceremony_tx that hold the message m
PlacesOf(m) == {i \in 1..Len(ceremony_tx) : ceremony_tx[i] = m}

\* every m on the bus has an earlier `before` on the bus
OnlyAfter(before, m) ==
    \A j \in PlacesOf(m) : \E i \in PlacesOf(before) : i < j

\* the rounds of the round-bearing messages on the bus
RoundsOnBus ==
    {ceremony_tx[i].round :
        i \in {k \in 1..Len(ceremony_tx) : ceremony_tx[k].type \in RoundMsgTypes}}

\* a RoundFinished(r), or a Shutdown(TestFinished) later than
\* RoundWaitingForParticipants(r), stands before place j
RoundEndedBefore(r, j) ==
    \/ \E i \in PlacesOf(Msg_RoundFinished(r)) : i < j
    \/ \E i \in PlacesOf(Msg_Shutdown("TestFinished")) :
          /\ i < j
          /\ \E w \in PlacesOf(Msg_RoundWaitingForParticipants(r)) : w < i

\* C21: for every round r the bus holds RoundStarted(r) only after
\* RoundWaitingForParticipants(r), RoundStartedAggregation(r) only after
\* RoundStarted(r), RoundAggregated(r) only after RoundStartedAggregation(r),
\* RoundFinished(r) only after RoundAggregated(r), each of the four at most
\* once, and RoundWaitingForParticipants(r + 1) only after RoundFinished(r)
\* or a Shutdown(TestFinished) broadcast during round r.
C21_PerRoundOrder ==
    \A r \in RoundsOnBus :
        /\ OnlyAfter(Msg_RoundWaitingForParticipants(r), Msg_RoundStarted(r))
        /\ OnlyAfter(Msg_RoundStarted(r), Msg_RoundStartedAggregation(r))
        /\ OnlyAfter(Msg_RoundStartedAggregation(r), Msg_RoundAggregated(r))
        /\ OnlyAfter(Msg_RoundAggregated(r), Msg_RoundFinished(r))
        /\ \A m \in {Msg_RoundStarted(r), Msg_RoundStartedAggregation(r),
                     Msg_RoundAggregated(r), Msg_RoundFinished(r)} :
              Cardinality(PlacesOf(m)) <= 1
        /\ r > 1 => \A j \in PlacesOf(Msg_RoundWaitingForParticipants(r)) :
                        RoundEndedBefore(r - 1, j)

C21_Witness ==
    ceremony_tx = <<Msg_RoundWaitingForParticipants(1), Msg_RoundStarted(1),
                    Msg_RoundStartedAggregation(1), Msg_RoundAggregated(1),
                    Msg_RoundFinished(1), Msg_RoundWaitingForParticipants(2),
                    Msg_RoundStarted(2), Msg_Shutdown("TestFinished")>>

====
